---- MODULE Spec2Model ----
(***************************************************************************)
(* Model of the bluecarbon RAG service: the structured-output parser       *)
(* (helper/llm.py), the in-process memory store (helper/memory.py), the    *)
(* query orchestrator (helper/core.py) and the /query route                *)
(* (routes/chat_route.py) with the persistence calls it makes              *)
(* (helper/session_manager.py).                                            *)
(*                                                                         *)
(* LLM text is a sequence of lexical tokens.  The three single characters  *)
(* "{", "}" and "t" (any other character) are what the regular expression  *)
(* of the parser looks at; the remaining tokens are JSON fragments that    *)
(* contain no brace:                                                       *)
(*    a   "answer":"          (opens the answer string)                    *)
(*    e   ",                  (closes a string)                            *)
(*    z   "answer":null,                                                   *)
(*    y   "citation_required":"yes",                                       *)
(*    n   "citation_required":"no",                                        *)
(*    v   "used_chunk_ids":[],                                             *)
(*    u   "used_chunk_ids":["c1"],                                         *)
(*    x   "used_chunk_ids":5,                                              *)
(*    r   "chunk_reasoning":  (an object value follows)                    *)
(*    s   "chunk_reasoning":"text",                                        *)
(*    k   "c1":"              (opens the string stored under key c1)       *)
(***************************************************************************)
EXTENDS Integers, Sequences, FiniteSets, TLC

VARIABLES
    content,             \* llm.py: the raw text handed to _parse_json_response
    target,              \* the JSON object the LLM meant to emit inside content
    response,            \* what _parse_json_response did with content
    gate,                \* core.py 126-131 applied to the parsed response
    max_memories,        \* memory.py: SimpleMemoryManager.max_memories
    _session_memories,   \* memory.py: {session_id: list of memory entries}
    _session_summaries,  \* memory.py: {session_id: summary}
    appended,            \* history: ids of every entry ever appended, per session
    recomputed,          \* history: the append ordinals at which the summary was rebuilt
    db_sessions,         \* chat_sessions table: the session ids that exist
    db_messages,         \* chat_messages table, in insertion order
    req,                 \* the in-flight /query requests and their locals
    running,             \* the request the event loop is running between two awaits
    api,                 \* the last call of a session endpoint and its HTTP status
    ctx,                 \* the last get_memory_context call and what it returned
    tx,                  \* one use of get_async_session: where it is and what it did
    cite,                \* one run of the citation resolver: its input and its output
    mem_call             \* the last call made to the memory manager on its own

vars == <<content, target, response, gate, max_memories, _session_memories,
          _session_summaries, appended, recomputed, db_sessions, db_messages,
          req, running, api, ctx, tx, cite, mem_call>>

parserVars == <<content, target, response, gate>>
memoryVars == <<max_memories, _session_memories, _session_summaries, appended, recomputed>>
routeVars  == <<db_sessions, db_messages, req, running>>
extVars    == <<api, ctx, tx, cite, mem_call>>
exceptApi  == <<ctx, tx, cite, mem_call>>
exceptCtx  == <<api, tx, cite, mem_call>>
exceptTx   == <<api, ctx, cite, mem_call>>
exceptCite == <<api, ctx, tx, mem_call>>
exceptCall == <<api, ctx, tx, cite>>

(***************************************************************************)
(* Bounds                                                                  *)
(***************************************************************************)
MaxRaw == 3          \* longest arbitrary token string given to the parser
MaxProse == 1        \* longest prose before, and after, an emitted object

(***************************************************************************)
(* JSON values.  A Python dict with the keys the service knows is a record *)
(* over KeyNames whose missing keys hold Absent.                           *)
(***************************************************************************)
KeyNames == {"answer", "citation_required", "used_chunk_ids", "chunk_reasoning", "c1"}

Absent == [kind |-> "absent", seq |-> <<>>, sub |-> <<>>]
Null == [kind |-> "null", seq |-> <<>>, sub |-> <<>>]
Num == [kind |-> "num", seq |-> <<>>, sub |-> <<>>]
Str(chars) == [kind |-> "str", seq |-> chars, sub |-> <<>>]
List(elems) == [kind |-> "list", seq |-> elems, sub |-> <<>>]
Obj(o) == [kind |-> "obj", seq |-> <<>>, sub |-> o]

EmptyObj == [k \in KeyNames |-> Absent]

KeysOf(o) == {k \in KeyNames : o[k].kind # "absent"}

Braces == {"{", "}"}
StrChars == {"t", "{", "}"}
Tokens == {"{", "}", "t", "a", "e", "z", "y", "n", "v", "u", "x", "r", "s", "k"}

(***************************************************************************)
(* json.loads on a token string that starts with "{" (llm.py:199).  Only   *)
(* what the tokens can spell is parsed: an object whose members are the    *)
(* fragments listed above.  A string runs to the next closing quote and    *)
(* may hold braces; a later member with the same key replaces the earlier. *)
(***************************************************************************)
ParseFail == [ok |-> FALSE, next |-> 0, obj |-> EmptyObj]

StringEnd(toks, p) ==
    LET quotes == {q \in p..Len(toks) : toks[q] = "e"} IN
    IF quotes = {} THEN 0
    ELSE LET q == CHOOSE q1 \in quotes : \A q2 \in quotes : q1 <= q2 IN
         IF \A j \in p..(q - 1) : toks[j] \in StrChars THEN q ELSE 0

RECURSIVE ParseMembers(_, _, _)
ParseMembers(toks, p, acc) ==
    IF p > Len(toks) THEN ParseFail
    ELSE LET c == toks[p] IN
         CASE c = "}" -> [ok |-> TRUE, next |-> p + 1, obj |-> acc]
           [] c \in {"a", "k"} ->
                LET q == StringEnd(toks, p + 1)
                    key == IF c = "a" THEN "answer" ELSE "c1"
                IN  IF q = 0 THEN ParseFail
                    ELSE ParseMembers(toks, q + 1,
                             [acc EXCEPT ![key] = Str(SubSeq(toks, p + 1, q - 1))])
           [] c = "z" -> ParseMembers(toks, p + 1, [acc EXCEPT !["answer"] = Null])
           [] c = "y" -> ParseMembers(toks, p + 1,
                             [acc EXCEPT !["citation_required"] = Str(<<"yes">>)])
           [] c = "n" -> ParseMembers(toks, p + 1,
                             [acc EXCEPT !["citation_required"] = Str(<<"no">>)])
           [] c = "v" -> ParseMembers(toks, p + 1,
                             [acc EXCEPT !["used_chunk_ids"] = List(<<>>)])
           [] c = "u" -> ParseMembers(toks, p + 1,
                             [acc EXCEPT !["used_chunk_ids"] = List(<<"c1">>)])
           [] c = "x" -> ParseMembers(toks, p + 1, [acc EXCEPT !["used_chunk_ids"] = Num])
           [] c = "s" -> ParseMembers(toks, p + 1,
                             [acc EXCEPT !["chunk_reasoning"] = Str(<<"text">>)])
           [] c = "r" ->
                IF p + 1 > Len(toks) \/ toks[p + 1] # "{" THEN ParseFail
                ELSE LET inner == ParseMembers(toks, p + 2, EmptyObj) IN
                     IF ~inner.ok THEN ParseFail
                     ELSE ParseMembers(toks, inner.next,
                              [acc EXCEPT !["chunk_reasoning"] = Obj(inner.obj)])
           [] OTHER -> ParseFail

json_loads(toks) ==
    IF Len(toks) = 0 \/ toks[1] # "{" THEN [ok |-> FALSE, obj |-> EmptyObj]
    ELSE LET r == ParseMembers(toks, 2, EmptyObj) IN
         IF r.ok /\ r.next = Len(toks) + 1 THEN [ok |-> TRUE, obj |-> r.obj]
         ELSE [ok |-> FALSE, obj |-> EmptyObj]

(***************************************************************************)
(* json.dumps: the token string an LLM writes for an object (what the      *)
(* prompt of core.py asks for).  Keys are written in a fixed order.        *)
(***************************************************************************)
RECURSIVE Serialize(_)
Serialize(o) ==
    LET ans == CASE o["answer"].kind = "str" -> <<"a">> \o o["answer"].seq \o <<"e">>
                 [] o["answer"].kind = "null" -> <<"z">>
                 [] OTHER -> <<>>
        cit == CASE o["citation_required"] = Str(<<"yes">>) -> <<"y">>
                 [] o["citation_required"] = Str(<<"no">>) -> <<"n">>
                 [] OTHER -> <<>>
        ids == CASE o["used_chunk_ids"] = List(<<>>) -> <<"v">>
                 [] o["used_chunk_ids"] = List(<<"c1">>) -> <<"u">>
                 [] o["used_chunk_ids"].kind = "num" -> <<"x">>
                 [] OTHER -> <<>>
        why == CASE o["chunk_reasoning"].kind = "obj" ->
                        <<"r">> \o Serialize(o["chunk_reasoning"].sub)
                 [] o["chunk_reasoning"].kind = "str" -> <<"s">>
                 [] OTHER -> <<>>
        one == CASE o["c1"].kind = "str" -> <<"k">> \o o["c1"].seq \o <<"e">>
                 [] OTHER -> <<>>
    IN  <<"{">> \o ans \o cit \o ids \o why \o one \o <<"}">>

(***************************************************************************)
(* re.search with the one-level-nesting brace pattern of llm.py:196.       *)
(* From an opening brace the expression can only be matched one way: plain *)
(* characters, any number of brace pairs that hold no brace, and the first *)
(* closing brace at depth one.  A third level of braces, or the end of the *)
(* text, fails that start and the search moves to the next position.       *)
(***************************************************************************)
RECURSIVE RegexScan(_, _, _)
RegexScan(text, p, depth) ==
    IF p > Len(text) THEN 0
    ELSE CASE text[p] = "{" -> IF depth = 2 THEN 0 ELSE RegexScan(text, p + 1, depth + 1)
           [] text[p] = "}" -> IF depth = 1 THEN p ELSE RegexScan(text, p + 1, depth - 1)
           [] OTHER -> RegexScan(text, p + 1, depth)

RegexStarts(text) ==
    {s \in 1..Len(text) : text[s] = "{" /\ RegexScan(text, s + 1, 1) # 0}

re_search(text) ==
    IF RegexStarts(text) = {} THEN <<>>
    ELSE LET s == CHOOSE s1 \in RegexStarts(text) : \A s2 \in RegexStarts(text) : s1 <= s2
         IN  SubSeq(text, s, RegexScan(text, s + 1, 1))

(***************************************************************************)
(* LLMClient._extract_json_block (llm.py:171-190): brace counting from the *)
(* first opening brace.  None is the empty sequence, as for re_search.     *)
(***************************************************************************)
\* llm.py:181-188, the loop; 0 when the text ends before the count is back at zero
RECURSIVE BraceScan(_, _, _)
BraceScan(text, i, brace_count) ==
    IF i > Len(text) THEN 0
    ELSE LET count == CASE text[i] = "{" -> brace_count + 1
                        [] text[i] = "}" -> brace_count - 1
                        [] OTHER -> brace_count
         IN  IF count = 0 THEN i ELSE BraceScan(text, i + 1, count)

_extract_json_block(text) ==
    LET opens == {i \in 1..Len(text) : text[i] = "{"} IN
    IF opens = {} THEN <<>>
    ELSE LET start == CHOOSE i \in opens : \A j \in opens : i <= j
             end == BraceScan(text, start, 0)
         IN  IF end = 0 THEN <<>> ELSE SubSeq(text, start, end)

(***************************************************************************)
(* LLMClient._parse_json_response (llm.py:193-222)                         *)
(***************************************************************************)
\* llm.py:205 left out: no default for a missing answer
SetDefaultsButAnswer(o) ==
    [o EXCEPT
       !["used_chunk_ids"] = IF @.kind = "absent" THEN List(<<>>) ELSE @,
       !["chunk_reasoning"] = IF @.kind = "absent" THEN Obj(EmptyObj) ELSE @,
       !["citation_required"] = IF @.kind = "absent" THEN Str(<<"no">>) ELSE @]

\* llm.py:202-205, the four setdefault calls
SetDefaults(o) ==
    [o EXCEPT
       !["used_chunk_ids"] = IF @.kind = "absent" THEN List(<<>>) ELSE @,
       !["chunk_reasoning"] = IF @.kind = "absent" THEN Obj(EmptyObj) ELSE @,
       !["citation_required"] = IF @.kind = "absent" THEN Str(<<"no">>) ELSE @,
       !["answer"] = IF @.kind = "absent" THEN Str(<<>>) ELSE @]

\* set(v) of Python: the elements of a list, the characters of a string,
\* the keys of a dict; None and numbers are not iterable.
Iterable(v) == v.kind \in {"list", "str", "obj"}
SetOf(v) ==
    CASE v.kind = "obj" -> KeysOf(v.sub)
      [] OTHER -> {v.seq[i] : i \in 1..Len(v.seq)}

\* llm.py:208 left out: the alignment of ids and reasoning is not enforced
AlignedUnchecked(parsed) == TRUE

\* llm.py:208, the comparison that guards the raise
Aligned(parsed) ==
    SetOf(parsed["used_chunk_ids"]) = KeysOf(parsed["chunk_reasoning"].sub)

\* llm.py:218 with an empty answer in place of the error message
FallbackEmptyAnswer ==
    [EmptyObj EXCEPT
       !["answer"] = Str(<<>>),
       !["citation_required"] = Str(<<"no">>),
       !["used_chunk_ids"] = List(<<>>),
       !["chunk_reasoning"] = Obj(EmptyObj)]

\* llm.py:216-222
Fallback ==
    [EmptyObj EXCEPT
       !["answer"] = Str(<<"Error parsing response.">>),
       !["citation_required"] = Str(<<"no">>),
       !["used_chunk_ids"] = List(<<>>),
       !["chunk_reasoning"] = Obj(EmptyObj)]

\* llm.py:198-211, the body of the try statement: it returns or it raises
TryBlock(m) ==
    LET loaded == json_loads(m)
        parsed == SetDefaults(loaded.obj)
    IN  IF ~loaded.ok THEN [outcome |-> "raise", exc |-> "JSONDecodeError", value |-> EmptyObj]
        ELSE IF ~Iterable(parsed["used_chunk_ids"])
             THEN [outcome |-> "raise", exc |-> "TypeError", value |-> EmptyObj]
        ELSE IF parsed["chunk_reasoning"].kind # "obj"
             THEN [outcome |-> "raise", exc |-> "AttributeError", value |-> EmptyObj]
        ELSE IF ~Aligned(parsed)
             THEN [outcome |-> "raise", exc |-> "ValueError", value |-> EmptyObj]
        ELSE [outcome |-> "return", exc |-> "", value |-> parsed]

\* llm.py:213 narrowed to except json.JSONDecodeError
CaughtJsonErrorsOnly(exc) == exc = "JSONDecodeError"

\* llm.py:213, except Exception
Caught(exc) == TRUE

_parse_json_response(text) ==
    LET json_match == re_search(text)
        tried == TryBlock(json_match)
    IN  IF json_match = <<>> THEN [raised |-> FALSE, value |-> Fallback]
        ELSE IF tried.outcome = "return" THEN [raised |-> FALSE, value |-> tried.value]
        ELSE IF Caught(tried.exc) THEN [raised |-> FALSE, value |-> Fallback]
        ELSE [raised |-> TRUE, value |-> EmptyObj]

(***************************************************************************)
(* RagOrchestrator.process_query, core.py:126-131: what the orchestrator   *)
(* reads from the parsed response.  len() of a number or None raises.      *)
(***************************************************************************)
Get(o, key, default) == IF o[key].kind = "absent" THEN default ELSE o[key]

LenOf(v) == IF v.kind = "obj" THEN Cardinality(KeysOf(v.sub)) ELSE Len(v.seq)

ReadResponse(llm_response) ==
    LET answer == Get(llm_response, "answer", Str(<<"No answer generated">>))
        used_chunk_ids == Get(llm_response, "used_chunk_ids", List(<<>>))
        wants == llm_response["citation_required"] = Str(<<"yes">>)
    IN  IF wants /\ ~Iterable(used_chunk_ids)
        THEN [raised |-> TRUE, answer |-> answer, used_chunk_ids |-> used_chunk_ids,
              citation_required |-> FALSE]
        ELSE [raised |-> FALSE, answer |-> answer, used_chunk_ids |-> used_chunk_ids,
              citation_required |-> wants /\ LenOf(used_chunk_ids) > 0]

(***************************************************************************)
(* Inputs of the parser: every token string up to MaxRaw, and every object *)
(* of TargetObjects written out by the LLM with up to MaxProse characters  *)
(* of prose before it and after it.                                        *)
(***************************************************************************)
SeqsUpTo(S, n) == UNION {[1..k -> S] : k \in 0..n}

RawTexts == SeqsUpTo(Tokens, MaxRaw)
ProseTexts == SeqsUpTo(StrChars, MaxProse)

AnswerValues ==
    {Absent, Null, Str(<<>>), Str(<<"t">>), Str(<<"}">>), Str(<<"{", "t", "}">>)}
CitationValues == {Absent, Str(<<"yes">>), Str(<<"no">>)}
UsedValues == {Absent, List(<<>>), List(<<"c1">>), Num}
ReasoningValues ==
    {Absent, Str(<<"text">>), Obj(EmptyObj),
     Obj([EmptyObj EXCEPT !["c1"] = Str(<<"t">>)]),
     Obj([EmptyObj EXCEPT !["c1"] = Str(<<"{">>)])}

TargetObjects ==
    {[EmptyObj EXCEPT !["answer"] = a, !["citation_required"] = c,
                      !["used_chunk_ids"] = u, !["chunk_reasoning"] = w] :
        a \in AnswerValues, c \in CitationValues, u \in UsedValues, w \in ReasoningValues}

NoTarget == [emitted |-> FALSE, obj |-> EmptyObj, pre |-> <<>>, post |-> <<>>]
NotParsed == [done |-> FALSE, raised |-> FALSE, value |-> EmptyObj]
NotRead ==
    [done |-> FALSE, raised |-> FALSE, answer |-> Absent, used_chunk_ids |-> Absent,
     citation_required |-> FALSE]

\* llm.py:168-169, response = self.llm.invoke(prompt): the text is the LLM's choice
InitParser ==
    /\ \/ /\ content \in RawTexts
          /\ target = NoTarget
       \/ \E o \in TargetObjects, pre \in ProseTexts, post \in ProseTexts :
             /\ content = pre \o Serialize(o) \o post
             /\ target = [emitted |-> TRUE, obj |-> o, pre |-> pre, post |-> post]
    /\ response = NotParsed
    /\ gate = NotRead

\* llm.py:169, return self._parse_json_response(response.content)
ParseResponse ==
    /\ ~response.done
    /\ response' = [done |-> TRUE] @@ _parse_json_response(content)
    /\ UNCHANGED <<content, target, gate>>

\* core.py:123-131, llm_response = ...; answer, used_chunk_ids, citation_required
ReadParsed ==
    /\ response.done /\ ~response.raised
    /\ ~gate.done
    /\ gate' = [done |-> TRUE] @@ ReadResponse(response.value)
    /\ UNCHANGED <<content, target, response>>

(***************************************************************************)
(* SimpleMemoryManager (helper/memory.py).  A message is a sequence of     *)
(* words; an entry keeps its id (the ordinal of the append stands for the  *)
(* uuid), the user message, the AI response and the metadata.              *)
(* The summary string is modelled by the user messages it lists ("" is the *)
(* empty sequence).  A dict is a function whose domain is its key set.     *)
(***************************************************************************)
SessionIds == {"s1", "s2"}

DefaultMaxMemories == 20

\* Python's list[-n:] for n >= 0 (list[-0:] is the whole list)
PySuffix(list, n) ==
    IF n = 0 \/ n >= Len(list) THEN list
    ELSE SubSeq(list, Len(list) - n + 1, Len(list))

MemoriesOf(session_id) ==
    IF session_id \in DOMAIN _session_memories THEN _session_memories[session_id] ELSE <<>>

SummaryOf(session_id) ==
    IF session_id \in DOMAIN _session_summaries THEN _session_summaries[session_id] ELSE <<>>

\* memory.py:114-130
_update_summary(memories, old_summary) ==
    IF Len(memories) < 3 THEN old_summary
    ELSE LET recent == PySuffix(memories, 5) IN
         [i \in 1..Len(recent) |-> recent[i].user_message]

\* a slip of memory.py:42: [:N] keeps the oldest entries instead of the newest
TruncateKeepsOldest(memories) ==
    IF Len(memories) > max_memories THEN SubSeq(memories, 1, max_memories) ELSE memories

\* memory.py:41-42, keep only the last N memories
Truncate(memories) ==
    IF Len(memories) > max_memories THEN PySuffix(memories, max_memories) ELSE memories

\* memory.py:45 with >= 5 in place of % 5 == 0
SummaryDueFromFive(memories) == Len(memories) >= 5

\* memory.py:45, update the summary every 5 messages
SummaryDue(memories) == Len(memories) % 5 = 0

\* memory.py:38 as an assignment of a new list: the entries stored by other
\* tasks are dropped
add_to_memory_replacing(session_id, user_message, ai_response, metadata) ==
    LET memory_entry == [id |-> Len(appended[session_id]) + 1,
                         user_message |-> user_message,
                         ai_response |-> ai_response,
                         metadata |-> metadata]
        kept == <<memory_entry>>
    IN  /\ _session_memories' =
              [s \in DOMAIN _session_memories \cup {session_id} |->
                  IF s = session_id THEN kept ELSE _session_memories[s]]
        /\ _session_summaries' =
              [s \in DOMAIN _session_summaries \cup {session_id} |->
                  IF s = session_id THEN SummaryOf(session_id) ELSE _session_summaries[s]]
        /\ appended' = [appended EXCEPT ![session_id] = Append(@, memory_entry)]
        /\ UNCHANGED <<recomputed, max_memories>>

\* memory.py:16-46
add_to_memory(session_id, user_message, ai_response, metadata) ==
    LET memory_entry == [id |-> Len(appended[session_id]) + 1,
                         user_message |-> user_message,
                         ai_response |-> ai_response,
                         metadata |-> metadata]
        kept == Truncate(Append(MemoriesOf(session_id), memory_entry))
        summary == IF SummaryDue(kept) THEN _update_summary(kept, SummaryOf(session_id))
                   ELSE SummaryOf(session_id)
    IN  /\ _session_memories' =
              [s \in DOMAIN _session_memories \cup {session_id} |->
                  IF s = session_id THEN kept ELSE _session_memories[s]]
        /\ _session_summaries' =
              [s \in DOMAIN _session_summaries \cup {session_id} |->
                  IF s = session_id THEN summary ELSE _session_summaries[s]]
        /\ appended' = [appended EXCEPT ![session_id] = Append(@, memory_entry)]
        /\ recomputed' = [recomputed EXCEPT ![session_id] =
                             IF SummaryDue(kept) THEN @ \cup {Len(appended[session_id]) + 1}
                             ELSE @]
        /\ UNCHANGED max_memories

\* memory.py:140-151
get_session_info(session_id) ==
    [session_id |-> session_id,
     has_memory |-> Len(MemoriesOf(session_id)) > 0,
     memory_count |-> Len(MemoriesOf(session_id)),
     has_summary |-> SummaryOf(session_id) # <<>>]

\* memory.py:136-137 left out: the cached summary survives the clear
ClearKeepsSummary(session_id) ==
    /\ _session_memories' =
          [s \in DOMAIN _session_memories \ {session_id} |-> _session_memories[s]]
    /\ appended' = [appended EXCEPT ![session_id] = <<>>]
    /\ recomputed' = [recomputed EXCEPT ![session_id] = {}]
    /\ UNCHANGED <<max_memories, _session_summaries>>

\* memory.py:132-138
clear_session_memory(session_id) ==
    /\ _session_memories' =
          [s \in DOMAIN _session_memories \ {session_id} |-> _session_memories[s]]
    /\ _session_summaries' =
          [s \in DOMAIN _session_summaries \ {session_id} |-> _session_summaries[s]]
    /\ appended' = [appended EXCEPT ![session_id] = <<>>]
    /\ recomputed' = [recomputed EXCEPT ![session_id] = {}]
    /\ UNCHANGED max_memories

\* str.lower() on a word; "W1" is the one word of the model with a capital
Lower(word) == IF word = "W1" THEN "w1" ELSE word

\* memory.py:94 and 99-102 without .lower(): the words are compared as written
WordsAsWritten(message) == {message[i] : i \in 1..Len(message)}

\* set(text.lower().split())
WordsOf(message) == {Lower(message[i]) : i \in 1..Len(message)}

\* the words of f"{ai_response}": None prints as "None"
AnswerWords(v) ==
    CASE v.kind = "null" -> {"none"}
      [] v.kind \in {"str", "list"} -> WordsOf(v.seq)
      [] OTHER -> {}

\* memory.py:99-103
Overlap(memory, query) ==
    Cardinality(WordsOf(query) \cap
                (WordsOf(memory.user_message) \cup AnswerWords(memory.ai_response)))

\* memory.py:97-108, most recent first, stop at limit
RECURSIVE CollectRelevant(_, _, _, _, _)
CollectRelevant(memories, query, limit, i, relevant) ==
    IF i = 0 \/ Len(relevant) >= limit THEN relevant
    ELSE CollectRelevant(memories, query, limit, i - 1,
             IF Overlap(memories[i], query) > 0 THEN Append(relevant, memories[i])
             ELSE relevant)

\* memory.py:111, list.sort(key=overlap, reverse=True) is stable
RECURSIVE SortByOverlap(_, _, _)
SortByOverlap(relevant, query, k) ==
    IF k = 0 THEN <<>>
    ELSE LET Scores(m) == Overlap(m, query) = k IN
         SelectSeq(relevant, Scores) \o SortByOverlap(relevant, query, k - 1)

\* memory.py:89-112
_find_relevant_memories(memories, query, limit) ==
    IF memories = <<>> \/ query = <<>> THEN <<>>
    ELSE SortByOverlap(CollectRelevant(memories, query, limit, Len(memories), <<>>),
                       query, Cardinality(WordsOf(query)))

\* x[:n] of Python works on strings and lists only
Sliceable(v) == v.kind \in {"str", "list"}

\* memory.py:48, limit: int = 5
DefaultLimit == 5

\* memory.py:76 with the recency fallback used only when nothing is relevant
RecentNeededWhenNoneRelevant(relevant, memories) == Len(relevant) = 0 /\ Len(memories) > 0

\* memory.py:76, if len(relevant) < 3 and len(memories) > 0
RecentNeeded(relevant, memories) == Len(relevant) < 3 /\ Len(memories) > 0

\* one part of context_parts: its heading and what is listed under it
Block(title, summary, entries) == [title |-> title, summary |-> summary, entries |-> entries]

\* memory.py:48-87; the result lists the blocks of the context string, the
\* empty string being no block at all
get_memory_context(session_id, query, limit) ==
    LET memories == MemoriesOf(session_id)
        summary == SummaryOf(session_id)
        relevant == _find_relevant_memories(memories, query, limit)
        recent == IF RecentNeeded(relevant, memories) THEN PySuffix(memories, 3) ELSE <<>>
        shown == relevant \o recent
    IN  IF memories = <<>> THEN [raised |-> FALSE, blocks |-> <<>>]
        ELSE IF \E i \in 1..Len(shown) : ~Sliceable(shown[i].ai_response)
             THEN [raised |-> TRUE, blocks |-> <<>>]
        ELSE [raised |-> FALSE,
              blocks |-> (IF summary # <<>>
                          THEN <<Block("CONVERSATION SUMMARY", summary, <<>>)>> ELSE <<>>)
                      \o (IF relevant # <<>>
                          THEN <<Block("RELEVANT PREVIOUS DISCUSSION", <<>>, relevant)>>
                          ELSE <<>>)
                      \o (IF RecentNeeded(relevant, memories)
                          THEN <<Block("RECENT CONVERSATION", <<>>, recent)>> ELSE <<>>)]

\* memory.py:34, metadata or {}
NoMetadata == [citation_required |-> FALSE, citations_count |-> 0, chunks_retrieved |-> 0]

\* SimpleMemoryManager.__init__, memory.py:11-14
InitMemoryStore ==
    /\ _session_memories = <<>>
    /\ _session_summaries = <<>>
    /\ appended = [s \in SessionIds |-> <<>>]
    /\ recomputed = [s \in SessionIds |-> {}]

(***************************************************************************)
(* Citation resolver (helper/prep_citation.py).  The vector store holds    *)
(* the rows of IndexRows in this order.  An identifier is a string; CharsOf *)
(* spells it out where Python looks inside it (slices, substring tests).   *)
(* An artifact is the HTML file written for one source file: its path, its *)
(* heading and, for every chunk of the section in the order of the page,   *)
(* whether the chunk is wrapped in the highlight marker.                   *)
(***************************************************************************)
Min(a, b) == IF a < b THEN a ELSE b

\* header values of the rows; a header is a string, spelled out
H1 == <<"h", "1">>
H2 == <<"h", "2">>

IndexRows ==
    << [chunk_id |-> "c1", file_id |-> "fi_aa1", header |-> H1, text |-> <<"h">>],
       [chunk_id |-> "c12", file_id |-> "fi_aa1", header |-> H1, text |-> <<"h">>],
       [chunk_id |-> "c2", file_id |-> "fi_aa1", header |-> H2, text |-> <<"h">>],
       [chunk_id |-> "c3", file_id |-> "fi_aa2", header |-> H1, text |-> <<"h">>],
       [chunk_id |-> "c4", file_id |-> "fi_bb1", header |-> H1, text |-> <<"h">>],
       [chunk_id |-> "c5", file_id |-> "fi_bb1", header |-> <<>>,
        text |-> <<"1", " ", "h", "1">>],
       [chunk_id |-> "c6", file_id |-> "fi_bb1", header |-> <<>>, text |-> <<"h">>],
       [chunk_id |-> "c7", file_id |-> "fi_bb1", header |-> <<" ">> \o H1,
        text |-> <<"h">>] >>

IndexedChunks == {IndexRows[i].chunk_id : i \in 1..Len(IndexRows)}

FileIds == {IndexRows[i].file_id : i \in 1..Len(IndexRows)}

\* the characters of an identifier
CharsOf(id) ==
    CASE id = "c1" -> <<"c", "1">>
      [] id = "c12" -> <<"c", "1", "2">>
      [] id = "c2" -> <<"c", "2">>
      [] id = "c3" -> <<"c", "3">>
      [] id = "c4" -> <<"c", "4">>
      [] id = "c5" -> <<"c", "5">>
      [] id = "c6" -> <<"c", "6">>
      [] id = "c7" -> <<"c", "7">>
      [] id = "c9" -> <<"c", "9">>
      [] id = "fi_aa1" -> <<"f", "i", "_", "a", "a", "1">>
      [] id = "fi_aa2" -> <<"f", "i", "_", "a", "a", "2">>
      [] id = "fi_bb1" -> <<"f", "i", "_", "b", "b", "1">>

\* s[:n] and s[-n:] of Python, n > 0
FirstChars(chars, n) == SubSeq(chars, 1, Min(n, Len(chars)))
LastChars(chars, n) == SubSeq(chars, Len(chars) - Min(n, Len(chars)) + 1, Len(chars))

\* Python's `a in b` for two strings: a occurs in b
IsSubstring(a, b) ==
    \E k \in 0..(Len(b) - Len(a)) : SubSeq(b, k + 1, k + Len(a)) = a

\* the second argument of build_section_markdown: a set of ids (list mode,
\* prep_citation.py:204) or the id itself (single mode, prep_citation.py:307)
IdSet(ids) == [kind |-> "set", ids |-> ids, id |-> ""]
IdString(id) == [kind |-> "str", ids |-> {}, id |-> id]

\* prep_citation.py:157, c["chunk_id"] in target_chunk_id
PyIn(chunk_id, target_chunk_id) ==
    IF target_chunk_id.kind = "set" THEN chunk_id \in target_chunk_id.ids
    ELSE IsSubstring(CharsOf(chunk_id), CharsOf(target_chunk_id.id))

RangeOf(seq) == {seq[i] : i \in 1..Len(seq)}

\* the rows the query of prep_citation.py:25-29 returns, in index order
QueryByChunkIds(chunk_ids) ==
    SelectSeq(IndexRows, LAMBDA row : row.chunk_id \in RangeOf(chunk_ids))

\* one group for every row returned, whatever its file
FirstFilesPerRow(results, i) == [n \in 1..Len(results) |-> results[n].file_id]

\* the keys of `grouped` in insertion order (prep_citation.py:31-33)
RECURSIVE FirstFiles(_, _)
FirstFiles(results, i) ==
    IF i > Len(results) THEN <<>>
    ELSE (IF \E j \in 1..(i - 1) : results[j].file_id = results[i].file_id THEN <<>>
          ELSE <<results[i].file_id>>) \o FirstFiles(results, i + 1)

\* prep_citation.py:17-35, resolve_file_ids_for_chunks
resolve_file_ids_for_chunks(chunk_ids) ==
    LET results == QueryByChunkIds(chunk_ids)
        keys == FirstFiles(results, 1)
    IN  [k \in 1..Len(keys) |->
           LET rows == SelectSeq(results, LAMBDA row : row.file_id = keys[k]) IN
           [file_id |-> keys[k], chunk_ids |-> [n \in 1..Len(rows) |-> rows[n].chunk_id]]]

\* prep_citation.py:55-73
fetch_all_chunks(file_id) == SelectSeq(IndexRows, LAMBDA row : row.file_id = file_id)

\* prep_citation.py:76-107
fetch_chunks_by_header(file_id, header) ==
    SelectSeq(IndexRows, LAMBDA row : row.file_id = file_id /\ row.header = header)

(***************************************************************************)
(* detect_heading (prep_citation.py:113-122).  A text is a sequence of the *)
(* characters "1" (a digit), ".", " ", "n" (a newline) and "h" (any other  *)
(* character).  The pattern is searched with re.MULTILINE: it may start at *)
(* the start of any line, its whitespace run may take newlines, and its    *)
(* last group runs to the end of the line it starts on.                    *)
(***************************************************************************)
IsSpace(c) == c \in {" ", "n"}

\* str.strip()
RECURSIVE LStrip(_)
LStrip(chars) ==
    IF chars # <<>> /\ IsSpace(chars[1]) THEN LStrip(SubSeq(chars, 2, Len(chars)))
    ELSE chars

RECURSIVE RStrip(_)
RStrip(chars) ==
    IF chars # <<>> /\ IsSpace(chars[Len(chars)])
    THEN RStrip(SubSeq(chars, 1, Len(chars) - 1))
    ELSE chars

Strip(chars) == RStrip(LStrip(chars))

\* the last index of the run of characters of `class` that starts at p; p - 1 if none
RECURSIVE RunEnd(_, _, _)
RunEnd(text, p, class) ==
    IF p <= Len(text) /\ text[p] \in class THEN RunEnd(text, p + 1, class) ELSE p - 1

\* the last index of the longest digits(.digits)* that starts at p; p - 1 if none
RECURSIVE NumberEnd(_, _)
NumberEnd(text, p) ==
    LET e == RunEnd(text, p, {"1"}) IN
    IF e < p THEN p - 1
    ELSE IF e + 2 <= Len(text) /\ text[e + 1] = "." /\ text[e + 2] = "1"
         THEN NumberEnd(text, e + 2)
         ELSE e

\* the pattern matches from s: a line start, a number, at least one whitespace
HeadingMatchAt(text, s) ==
    /\ s = 1 \/ text[s - 1] = "n"
    /\ NumberEnd(text, s) >= s
    /\ RunEnd(text, NumberEnd(text, s) + 1, {" ", "n"}) > NumberEnd(text, s)

\* group 2 of the match that starts at s
HeadingGroup(text, s) ==
    LET from == RunEnd(text, NumberEnd(text, s) + 1, {" ", "n"}) + 1 IN
    SubSeq(text, from, RunEnd(text, from, {"1", ".", " ", "h"}))

ReferencedSection == <<"Referenced Section">>

\* prep_citation.py:113-122
detect_heading(chunk) ==
    IF chunk.header # <<>> THEN Strip(chunk.header)
    ELSE LET starts == {s \in 1..Len(chunk.text) : HeadingMatchAt(chunk.text, s)} IN
         IF starts # {}
         THEN Strip(HeadingGroup(chunk.text, CHOOSE s \in starts : \A q \in starts : s <= q))
         ELSE ReferencedSection

\* sorted(chunks, key=chunk_id): the ids of the model in string order
ChunkOrder == <<"c1", "c12", "c2", "c3", "c4", "c5", "c6", "c7">>

RECURSIVE SortByChunkId(_, _)
SortByChunkId(chunks, k) ==
    IF k > Len(ChunkOrder) THEN <<>>
    ELSE SelectSeq(chunks, LAMBDA row : row.chunk_id = ChunkOrder[k])
         \o SortByChunkId(chunks, k + 1)

\* prep_citation.py:128-162: per chunk of the section, highlighted or not
build_section_markdown(chunks, target_chunk_id, heading) ==
    LET sorted == SortByChunkId(chunks, 1) IN
    [i \in 1..Len(sorted) |->
        [chunk_id |-> sorted[i].chunk_id,
         highlighted |-> PyIn(sorted[i].chunk_id, target_chunk_id)]]

\* prep_citation.py:208-212, file_id[:5] and the number of cited chunks
ListPath(file_id, chunk_ids) ==
    [prefix |-> FirstChars(CharsOf(file_id), 5), chunks |-> Len(chunk_ids), suffix |-> <<>>]

\* prep_citation.py:291-295, file_id[:5] and str(target_chunk_id)[-5:]
SinglePath(file_id, target_chunk_id) ==
    [prefix |-> FirstChars(CharsOf(file_id), 5), chunks |-> 0,
     suffix |-> LastChars(CharsOf(target_chunk_id), 5)]

\* prep_citation.py:195-207, the section of the first cited chunk of the file
SectionOf(file_id, chunk_id) ==
    LET all_chunks == fetch_all_chunks(file_id)
        target_chunk == CHOOSE c \in RangeOf(all_chunks) : c.chunk_id = chunk_id
        heading == detect_heading(target_chunk)
    IN  [heading |-> heading, chunks |-> fetch_chunks_by_header(file_id, heading)]

\* prep_citation.py:191-282, the files written, one per group, in order
ListArtifacts(target_chunk_ids) ==
    LET file_to_chunks == resolve_file_ids_for_chunks(target_chunk_ids) IN
    [k \in 1..Len(file_to_chunks) |->
        LET file_id == file_to_chunks[k].file_id
            chunk_ids == file_to_chunks[k].chunk_ids
            section == SectionOf(file_id, chunk_ids[1])
        IN  [path |-> ListPath(file_id, chunk_ids), file_id |-> file_id,
             heading |-> section.heading,
             body |-> build_section_markdown(section.chunks, IdSet(RangeOf(chunk_ids)),
                                             section.heading)]]

\* prep_citation.py:183-284, the list of the paths written
create_section_html_from_listchunk(target_chunk_ids) ==
    LET written == ListArtifacts(target_chunk_ids) IN
    [k \in 1..Len(written) |-> written[k].path]

\* prep_citation.py:300, next(...) finds the chunk among the chunks of the file
SingleFound(file_id, target_chunk_id) ==
    \E c \in RangeOf(fetch_all_chunks(file_id)) : c.chunk_id = target_chunk_id

\* prep_citation.py:286-384, the one file written
create_section_html_from_chunk(file_id, target_chunk_id) ==
    LET section == SectionOf(file_id, target_chunk_id) IN
    [path |-> SinglePath(file_id, target_chunk_id), file_id |-> file_id,
     heading |-> section.heading,
     body |-> build_section_markdown(section.chunks, IdString(target_chunk_id),
                                     section.heading)]

\* what iterating a Python value yields, in order
ItemsOf(v) == IF v.kind = "obj" THEN <<>> ELSE v.seq

\* core.py:140-144, zip(used_chunk_ids, html_paths)
ZipCitations(ids, html_paths) ==
    [i \in 1..Min(Len(ids), Len(html_paths)) |->
        [chunk_id |-> ids[i], citation_path |-> html_paths[i]]]

(***************************************************************************)
(* The /query route (routes/chat_route.py:18-83) and                       *)
(* RagOrchestrator.process_query (helper/core.py:32-176).  A request is a  *)
(* task of the event loop.  The only awaits that suspend it are the        *)
(* persistence calls; between two of them the task runs alone, which       *)
(* `running` records.                                                      *)
(***************************************************************************)
Requests == {"r1", "r2"}
NoRequest == "none"
NoSession == "none"

Queries == {<<"w1">>, <<"w2">>}
RetrievalResults == {<<>>, <<"c1">>}

\* what the LLM may answer to a query prompt
ReplyObjects ==
    {[EmptyObj EXCEPT !["answer"] = a, !["citation_required"] = c,
                      !["used_chunk_ids"] = u, !["chunk_reasoning"] = w] :
        a \in {Str(<<"t">>)}, c \in {Str(<<"yes">>), Str(<<"no">>)},
        u \in {List(<<>>), List(<<"c1">>)},
        w \in {Obj(EmptyObj), Obj([EmptyObj EXCEPT !["c1"] = Str(<<"t">>)])}}
    \cup {[EmptyObj EXCEPT !["answer"] = Str(<<"t">>)],
          [EmptyObj EXCEPT !["answer"] = Null]}

LLMReplies ==
    {Serialize(o) : o \in ReplyObjects} \cup {<<>>, <<"t">>, <<"{", "a", "t">>}

\* core.py:165-176, the keys of the dict process_query returns
NoResult == [status |-> "none"]

IdleRequest ==
    [pc |-> "idle", query |-> <<>>, session_id |-> NoSession, memory_used |-> FALSE,
     chunks |-> <<>>, llm_text |-> <<>>, llm_response |-> EmptyObj,
     resolver_called |-> FALSE, resolver_raised |-> FALSE, citations |-> <<>>,
     memory_id |-> 0, result |-> NoResult, body |-> NoResult, http |-> 0, error |-> ""]

\* chat_route.py:81-83, except Exception: raise HTTPException(status_code=500)
Fail(r, why) ==
    /\ req' = [req EXCEPT ![r].pc = "failed", ![r].http = 500, ![r].error = why]
    /\ running' = NoRequest

MessagesOf(r) == SelectSeq(db_messages, LAMBDA m : m.request = r)

\* QueryRequest arrives, chat_route.py:19
Receive(r) ==
    /\ running = NoRequest
    /\ req[r].pc = "idle"
    /\ \E q \in Queries, sid \in SessionIds \cup {NoSession} :
          req' = [req EXCEPT ![r].pc = "lookup", ![r].query = q, ![r].session_id = sid]
    /\ UNCHANGED <<running, db_sessions, db_messages>>
    /\ UNCHANGED memoryVars

\* chat_route.py:25-29, the request names a session
GetSession(r) ==
    /\ running = NoRequest
    /\ req[r].pc = "lookup"
    /\ req[r].session_id # NoSession
    /\ IF req[r].session_id \in db_sessions
       THEN /\ req' = [req EXCEPT ![r].pc = "memory"]
            /\ running' = r
       ELSE Fail(r, "session_not_found")
    /\ UNCHANGED <<db_sessions, db_messages>>
    /\ UNCHANGED memoryVars

\* chat_route.py:30-37 and session_manager.py:34-57, a new session with a fresh uuid
CreateSession(r) ==
    /\ running = NoRequest
    /\ req[r].pc = "lookup"
    /\ req[r].session_id = NoSession
    /\ SessionIds \ db_sessions # {}
    /\ LET fresh == IF "s1" \notin db_sessions THEN "s1" ELSE "s2"
       IN  /\ db_sessions' = db_sessions \cup {fresh}
           /\ req' = [req EXCEPT ![r].pc = "memory", ![r].session_id = fresh]
    /\ running' = r
    /\ UNCHANGED db_messages
    /\ UNCHANGED memoryVars

\* core.py:39-42, STEP 1: memory context of the session
MemoryContext(r) ==
    /\ running = r
    /\ req[r].pc = "memory"
    /\ LET memory_context == get_memory_context(req[r].session_id, req[r].query, DefaultLimit) IN
       IF memory_context.raised THEN Fail(r, "memory_context")
       ELSE /\ req' = [req EXCEPT ![r].pc = "retrieve",
                                  ![r].memory_used = memory_context.blocks # <<>>]
            /\ UNCHANGED running
    /\ UNCHANGED <<db_sessions, db_messages>>
    /\ UNCHANGED memoryVars

\* core.py:45 wrapped in a try that swallows the error and goes on without chunks
RetrieveSwallowsFailure(r) ==
    /\ running = r
    /\ req[r].pc = "retrieve"
    /\ \/ /\ req' = [req EXCEPT ![r].pc = "generate", ![r].error = "retrieval"]
          /\ UNCHANGED running
       \/ /\ \E chunks \in RetrievalResults :
                req' = [req EXCEPT ![r].pc = "generate", ![r].chunks = chunks]
          /\ UNCHANGED running
    /\ UNCHANGED <<db_sessions, db_messages>>
    /\ UNCHANGED memoryVars

\* core.py:44-47, STEP 2: the embedding call or the vector search may raise
Retrieve(r) ==
    /\ running = r
    /\ req[r].pc = "retrieve"
    /\ \/ Fail(r, "retrieval")
       \/ /\ \E chunks \in RetrievalResults :
                req' = [req EXCEPT ![r].pc = "generate", ![r].chunks = chunks]
          /\ UNCHANGED running
    /\ UNCHANGED <<db_sessions, db_messages>>
    /\ UNCHANGED memoryVars

\* core.py:123 and llm.py:168-169, STEP 4: the LLM call may raise
Generate(r) ==
    /\ running = r
    /\ req[r].pc = "generate"
    /\ \/ Fail(r, "llm")
       \/ \E text \in LLMReplies :
             LET parsed == _parse_json_response(text) IN
             IF parsed.raised THEN Fail(r, "parse")
             ELSE /\ req' = [req EXCEPT ![r].pc = "cite", ![r].llm_text = text,
                                        ![r].llm_response = parsed.value]
                  /\ UNCHANGED running
    /\ UNCHANGED <<db_sessions, db_messages>>
    /\ UNCHANGED memoryVars

\* core.py:129 left out: the gate looks at the chunk ids only
GateIgnoresFlag(read) == LenOf(read.used_chunk_ids) > 0

\* core.py:135, if citation_required
GatePasses(read) == read.citation_required

\* core.py:136/146 without the try: a resolver error leaves process_query
ResolverUncaught == FALSE

\* core.py:146, except Exception around the resolver call
ResolverCaught == TRUE

\* core.py:126-147, the citation gate and the resolver call, which may raise
Cite(r) ==
    /\ running = r
    /\ req[r].pc = "cite"
    /\ LET read == ReadResponse(req[r].llm_response)
           ids == ItemsOf(read.used_chunk_ids)
       IN  IF read.raised THEN Fail(r, "response")
           ELSE IF ~GatePasses(read)
           THEN /\ req' = [req EXCEPT ![r].pc = "remember"]
                /\ UNCHANGED running
           ELSE \E resolved \in BOOLEAN :
                   IF resolved
                   THEN /\ req' = [req EXCEPT
                              ![r].pc = "remember", ![r].resolver_called = TRUE,
                              ![r].citations =
                                  ZipCitations(ids, create_section_html_from_listchunk(ids))]
                        /\ UNCHANGED running
                   ELSE IF ResolverCaught
                   THEN /\ req' = [req EXCEPT
                              ![r].pc = "remember", ![r].resolver_called = TRUE,
                              ![r].resolver_raised = TRUE]
                        /\ UNCHANGED running
                   ELSE /\ req' = [req EXCEPT
                              ![r].pc = "failed", ![r].http = 500, ![r].error = "resolver",
                              ![r].resolver_called = TRUE, ![r].resolver_raised = TRUE]
                        /\ running' = NoRequest
    /\ UNCHANGED <<db_sessions, db_messages>>
    /\ UNCHANGED memoryVars

\* core.py:165-176
ResultOf(r) ==
    LET read == ReadResponse(req[r].llm_response) IN
    [status |-> "success", query |-> req[r].query, answer |-> read.answer,
     citation_required |-> read.citation_required, citations |-> req[r].citations,
     chunks_retrieved |-> Len(req[r].chunks), session_id |-> req[r].session_id,
     memory_used |-> req[r].memory_used]

\* core.py:150-176, STEP 6: update memory and return the result; the route then
\* awaits the first add_message
UpdateMemory(r) ==
    /\ running = r
    /\ req[r].pc = "remember"
    /\ add_to_memory(req[r].session_id, req[r].query, ResultOf(r).answer,
                     [citation_required |-> ResultOf(r).citation_required,
                      citations_count |-> Len(req[r].citations),
                      chunks_retrieved |-> Len(req[r].chunks)])
    /\ req' = [req EXCEPT ![r].pc = "save_user", ![r].result = ResultOf(r),
                          ![r].memory_id = Len(appended[req[r].session_id]) + 1]
    /\ running' = NoRequest
    /\ UNCHANGED <<db_sessions, db_messages>>

\* session_manager.py:139-166
add_message(session_id, role, msg, r) ==
    Append(db_messages,
           [session_id |-> session_id, role |-> role, content |-> msg, request |-> r])

\* chat_route.py:47-51
SaveUser(r) ==
    /\ running = NoRequest
    /\ req[r].pc = "save_user"
    /\ db_messages' = add_message(req[r].session_id, "user", Str(req[r].query), r)
    /\ req' = [req EXCEPT ![r].pc = "save_assistant"]
    /\ running' = r
    /\ UNCHANGED db_sessions
    /\ UNCHANGED memoryVars

\* chat_route.py:57-63 and 66-79, the keys the route reads from the result
RouteReads ==
    {"status", "query", "answer", "citation_required", "citation_limit", "files_used",
     "citations", "chunks_retrieved", "memory_used"}

\* chat_route.py:53-83: a key the result lacks raises KeyError before the
\* assistant message is stored
SaveAssistant(r) ==
    /\ running = r
    /\ req[r].pc = "save_assistant"
    /\ IF RouteReads \subseteq DOMAIN req[r].result
       THEN /\ db_messages' =
                  add_message(req[r].session_id, "assistant", req[r].result.answer, r)
            /\ req' = [req EXCEPT ![r].pc = "done", ![r].http = 200,
                                  ![r].body = req[r].result]
            /\ running' = NoRequest
       ELSE /\ Fail(r, "KeyError")
            /\ UNCHANGED db_messages
    /\ UNCHANGED db_sessions
    /\ UNCHANGED memoryVars

(***************************************************************************)
(* The service: the orchestrator is built once (chat_route.py:16,          *)
(* core.py:23-30) with the default memory cap and an empty database.       *)
(***************************************************************************)
ParserIdle ==
    /\ content = <<>> /\ target = NoTarget /\ response = NotParsed /\ gate = NotRead

RouteIdle ==
    /\ db_sessions = {} /\ db_messages = <<>>
    /\ req = [r \in Requests |-> IdleRequest]
    /\ running = NoRequest

\* no session endpoint has been called yet
NoCall == [endpoint |-> "none", session_id |-> NoSession, existed |-> FALSE, http |-> 0]

\* get_memory_context has not been called yet
NotAsked == [asked |-> FALSE]

\* no database operation is under way
NoTx ==
    [pc |-> "idle", op |-> "none", step |-> 0, pending |-> FALSE, committed |-> FALSE,
     commit_failed |-> FALSE, rolled_back |-> FALSE, closed |-> FALSE,
     body_raised |-> FALSE, raised |-> FALSE, n |-> 0]

\* the resolver has not run
NoCite == [pc |-> "idle"]

\* the memory manager has not been called
NoMemoryCall == [op |-> "none"]

ExtIdle ==
    /\ api = NoCall /\ ctx = NotAsked /\ tx = NoTx /\ cite = NoCite
    /\ mem_call = NoMemoryCall

Init ==
    /\ ParserIdle
    /\ max_memories = DefaultMaxMemories
    /\ InitMemoryStore
    /\ RouteIdle
    /\ ExtIdle

Next ==
    \E r \in Requests :
       \/ Receive(r) /\ UNCHANGED <<parserVars, extVars>>
       \/ GetSession(r) /\ UNCHANGED <<parserVars, extVars>>
       \/ CreateSession(r) /\ UNCHANGED <<parserVars, extVars>>
       \/ MemoryContext(r) /\ UNCHANGED <<parserVars, extVars>>
       \/ Retrieve(r) /\ UNCHANGED <<parserVars, extVars>>
       \/ Generate(r) /\ UNCHANGED <<parserVars, extVars>>
       \/ Cite(r) /\ UNCHANGED <<parserVars, extVars>>
       \/ UpdateMemory(r) /\ UNCHANGED <<parserVars, extVars>>
       \/ SaveUser(r) /\ UNCHANGED <<parserVars, extVars>>
       \/ SaveAssistant(r) /\ UNCHANGED <<parserVars, extVars>>

Spec == Init /\ [][Next]_vars

(***************************************************************************)
(* The parser alone, on every input of the bounded input sets.             *)
(***************************************************************************)
InitParserSpec ==
    /\ InitParser
    /\ max_memories = DefaultMaxMemories
    /\ InitMemoryStore
    /\ RouteIdle
    /\ ExtIdle

NextParser ==
    \/ ParseResponse /\ UNCHANGED <<memoryVars, routeVars, extVars>>
    \/ ReadParsed /\ UNCHANGED <<memoryVars, routeVars, extVars>>

SpecParser == InitParserSpec /\ [][NextParser]_vars

(***************************************************************************)
(* The memory store alone, for every cap up to MaxCap and the default cap. *)
(* The n-th turn of a session carries the message "n".                     *)
(***************************************************************************)
MaxCap == 6          \* largest configured cap besides the default
MaxOver == 6         \* appends made beyond the cap

Caps == 1..MaxCap \cup {DefaultMaxMemories}

InitMemorySpec ==
    /\ ParserIdle
    /\ max_memories \in Caps
    /\ InitMemoryStore
    /\ RouteIdle
    /\ ExtIdle

\* what a call finds: the call, its session and the session's state before it
Calling(op, session_id) ==
    mem_call' = [op |-> op, session_id |-> session_id, before |-> get_session_info(session_id)]

AddTurn(session_id) ==
    /\ Len(appended[session_id]) < max_memories + MaxOver
    /\ add_to_memory(session_id, <<ToString(Len(appended[session_id]) + 1)>>,
                     Str(<<"t">>), NoMetadata)
    /\ Calling("add", session_id)
    /\ UNCHANGED <<parserVars, routeVars, exceptCall>>

ClearMemory(session_id) ==
    /\ clear_session_memory(session_id)
    /\ Calling("clear", session_id)
    /\ UNCHANGED <<parserVars, routeVars, exceptCall>>

NextMemory ==
    \E session_id \in SessionIds :
       \/ AddTurn(session_id)
       \/ ClearMemory(session_id)

SpecMemory == InitMemorySpec /\ [][NextMemory]_vars

(***************************************************************************)
(* The session endpoints (routes/chat_route.py:179-298) next to one /query *)
(* request.  A handler is one step: its persistence calls are transactions *)
(* of their own and the status it answers with depends only on the first   *)
(* of them.  The database is available.                                    *)
(***************************************************************************)
Endpoints == {"details", "full", "delete", "update", "messages"}

\* chat_route.py:199-200, 213-214, 227-228, 257-258: except HTTPException: raise
\* precedes except Exception in these handlers, and in no other
ReraisesHTTPException(endpoint) == endpoint \in {"details", "full", "delete", "update"}

\* the status a handler answers with when its try block ends with exc
StatusOf(endpoint, exc) ==
    IF exc = "none" THEN 200
    ELSE IF exc = "HTTPException(404)" /\ ReraisesHTTPException(endpoint) THEN 404
    ELSE 500

Called(endpoint, session_id, http) ==
    api' = [endpoint |-> endpoint, session_id |-> session_id,
            existed |-> session_id \in db_sessions, http |-> http]

NotFoundOr(session_id, exc) ==
    IF session_id \in db_sessions THEN exc ELSE "HTTPException(404)"

\* chat_route.py:179-202
get_session_details(session_id) ==
    /\ running = NoRequest
    /\ Called("details", session_id, StatusOf("details", NotFoundOr(session_id, "none")))
    /\ UNCHANGED <<db_sessions, db_messages, req, running>>

\* chat_route.py:204-216 and session_manager.py:186-234
get_session_with_messages(session_id) ==
    /\ running = NoRequest
    /\ Called("full", session_id, StatusOf("full", NotFoundOr(session_id, "none")))
    /\ UNCHANGED <<db_sessions, db_messages, req, running>>

\* chat_route.py:218-230 and session_manager.py:113-126: the messages of the
\* session and the session row are deleted; rowcount tells whether it existed
delete_session(session_id) ==
    /\ running = NoRequest
    /\ Called("delete", session_id, StatusOf("delete", NotFoundOr(session_id, "none")))
    /\ db_messages' = SelectSeq(db_messages, LAMBDA m : m.session_id # session_id)
    /\ db_sessions' = db_sessions \ {session_id}
    /\ UNCHANGED <<req, running>>

\* chat_route.py:232-260 and session_manager.py:81-110: the row is loaded by
\* get_session in a session of its own, so refresh() in the outer one may
\* reject the instance
update_session(session_id) ==
    /\ running = NoRequest
    /\ \E exc \in {"none", "InvalidRequestError"} :
          Called("update", session_id, StatusOf("update", NotFoundOr(session_id, exc)))
    /\ UNCHANGED <<db_sessions, db_messages, req, running>>

\* chat_route.py:262-298: the 404 is raised inside a try whose only handler is
\* except Exception; for a session that exists line 274 passes offset=, which
\* SessionManager.get_session_messages (session_manager.py:169-172) does not take
get_session_messages(session_id) ==
    /\ running = NoRequest
    /\ Called("messages", session_id,
              StatusOf("messages", NotFoundOr(session_id, "TypeError")))
    /\ UNCHANGED <<db_sessions, db_messages, req, running>>

\* chat_route.py:85-94: the handler builds a SimpleMemoryManager of its own
\* (line 90), whose two dicts are empty (memory.py:13-14), and clears the
\* session in it: nothing is deleted there, and the manager of the
\* orchestrator (chat_route.py:16, core.py:29) is not touched
clear_memory(session_id) ==
    /\ running = NoRequest
    /\ Called("clear_memory", session_id, StatusOf("clear_memory", "none"))
    /\ UNCHANGED memoryVars
    /\ UNCHANGED <<db_sessions, db_messages, req, running>>

TheRequest == "r1"

InitSessions ==
    /\ ParserIdle
    /\ max_memories = DefaultMaxMemories
    /\ InitMemoryStore
    /\ RouteIdle
    /\ ExtIdle

NextSessions ==
    \/ \E session_id \in SessionIds :
          \/ get_session_details(session_id) /\ UNCHANGED <<parserVars, memoryVars, exceptApi>>
          \/ get_session_with_messages(session_id) /\ UNCHANGED <<parserVars, memoryVars, exceptApi>>
          \/ delete_session(session_id) /\ UNCHANGED <<parserVars, memoryVars, exceptApi>>
          \/ update_session(session_id) /\ UNCHANGED <<parserVars, memoryVars, exceptApi>>
          \/ get_session_messages(session_id) /\ UNCHANGED <<parserVars, memoryVars, exceptApi>>
          \/ clear_memory(session_id) /\ UNCHANGED <<parserVars, exceptApi>>
    \/ Receive(TheRequest) /\ UNCHANGED <<parserVars, extVars>>
    \/ GetSession(TheRequest) /\ UNCHANGED <<parserVars, extVars>>
    \/ CreateSession(TheRequest) /\ UNCHANGED <<parserVars, extVars>>
    \/ MemoryContext(TheRequest) /\ UNCHANGED <<parserVars, extVars>>
    \/ Retrieve(TheRequest) /\ UNCHANGED <<parserVars, extVars>>
    \/ Generate(TheRequest) /\ UNCHANGED <<parserVars, extVars>>
    \/ Cite(TheRequest) /\ UNCHANGED <<parserVars, extVars>>
    \/ UpdateMemory(TheRequest) /\ UNCHANGED <<parserVars, extVars>>
    \/ SaveUser(TheRequest) /\ UNCHANGED <<parserVars, extVars>>
    \/ SaveAssistant(TheRequest) /\ UNCHANGED <<parserVars, extVars>>

SpecSessions == InitSessions /\ [][NextSessions]_vars

(***************************************************************************)
(* The memory context alone: a session is filled turn by turn and then     *)
(* asked for the context of a query.  The words "w1", "W1", "w2", "w3" and *)
(* "t" are all the words there are.                                        *)
(***************************************************************************)
MaxEntries == 6      \* turns added before the context is asked for

Turns ==
    {[user_message |-> <<"w1">>, ai_response |-> Str(<<"t">>)],
     [user_message |-> <<"W1", "w2">>, ai_response |-> Str(<<"t">>)],
     [user_message |-> <<"w3">>, ai_response |-> Str(<<"t">>)],
     [user_message |-> <<"w3">>, ai_response |-> Str(<<"w2">>)]}

ContextQueries == {<<>>, <<"W1">>, <<"w1", "w2">>}

Limits == {2, DefaultLimit}

InitContext ==
    /\ ParserIdle
    /\ max_memories = DefaultMaxMemories
    /\ InitMemoryStore
    /\ RouteIdle
    /\ ExtIdle

AddEntry(turn) ==
    /\ ~ctx.asked
    /\ Len(appended["s1"]) < MaxEntries
    /\ add_to_memory("s1", turn.user_message, turn.ai_response, NoMetadata)
    /\ UNCHANGED <<parserVars, routeVars, extVars>>

AskContext(session_id, query, limit) ==
    /\ ~ctx.asked
    /\ ctx' = [asked |-> TRUE, session_id |-> session_id, query |-> query, limit |-> limit,
               relevant |-> _find_relevant_memories(MemoriesOf(session_id), query, limit),
               out |-> get_memory_context(session_id, query, limit)]
    /\ UNCHANGED <<parserVars, memoryVars, routeVars, exceptCtx>>

NextContext ==
    \/ \E turn \in Turns : AddEntry(turn)
    \/ \E session_id \in SessionIds, query \in ContextQueries, limit \in Limits :
          AskContext(session_id, query, limit)

SpecContext == InitContext /\ [][NextContext]_vars

(***************************************************************************)
(* One persistence operation at a time inside get_async_session            *)
(* (database/postgres.py:44-55).  The body of an operation is the list of  *)
(* its database calls (helper/session_manager.py); every awaited call may  *)
(* raise; rollback() and close() do their work.  Writes reach the tables   *)
(* when a commit succeeds.                                                 *)
(***************************************************************************)
MaxOps == 3          \* operations run one after the other

Operations == {"get_session", "create_session", "add_message", "delete_session"}

\* the database calls of each body, in order: add() is synchronous, the
\* others are awaited
BodyOf(op) ==
    CASE op = "get_session" -> <<"execute_read">>                           \* 62-66
      [] op = "create_session" -> <<"add", "commit", "refresh">>            \* 45-57
      [] op = "add_message" -> <<"add", "execute_write", "commit", "refresh">>   \* 147-166
      [] op = "delete_session" -> <<"execute_write", "execute_write", "commit">> \* 115-126

Awaited(call) == call # "add"

Writes(call) == call \in {"add", "execute_write"}

\* what the writes of an operation do to the tables once committed
CommitWrites(op) ==
    CASE op = "create_session" ->
            /\ db_sessions' = db_sessions \cup
                  {IF "s1" \notin db_sessions THEN "s1" ELSE "s2"}
            /\ UNCHANGED db_messages
      [] op = "add_message" ->
            /\ db_messages' = add_message("s1", "user", Str(<<"w1">>), NoRequest)
            /\ UNCHANGED db_sessions
      [] op = "delete_session" ->
            /\ db_messages' = SelectSeq(db_messages, LAMBDA m : m.session_id # "s1")
            /\ db_sessions' = db_sessions \ {"s1"}
      [] OTHER -> UNCHANGED <<db_sessions, db_messages>>

\* session.commit(): the pending writes become visible
Commit(op) ==
    IF tx.pending THEN CommitWrites(op) ELSE UNCHANGED <<db_sessions, db_messages>>

\* postgres.py:47-49, the session is opened and handed to the body
Begin(op) ==
    /\ tx.pc \in {"idle", "done"}
    /\ tx.n < MaxOps
    /\ tx' = [NoTx EXCEPT !.pc = "body", !.op = op, !.step = 1, !.n = tx.n + 1]
    /\ UNCHANGED <<db_sessions, db_messages>>

\* one database call of the body; after the last one the body returns
BodyCall ==
    /\ tx.pc = "body"
    /\ LET call == BodyOf(tx.op)[tx.step]
           next_pc == IF tx.step = Len(BodyOf(tx.op)) THEN "exit" ELSE "body"
       IN  \/ /\ Awaited(call)
              /\ tx' = [tx EXCEPT !.pc = "except", !.body_raised = TRUE]
              /\ UNCHANGED <<db_sessions, db_messages>>
           \/ /\ call = "commit"
              /\ Commit(tx.op)
              /\ tx' = [tx EXCEPT !.pc = next_pc, !.step = @ + 1,
                                  !.committed = TRUE, !.pending = FALSE]
           \/ /\ call # "commit"
              /\ tx' = [tx EXCEPT !.pc = next_pc, !.step = @ + 1,
                                  !.pending = @ \/ Writes(call)]
              /\ UNCHANGED <<db_sessions, db_messages>>

\* postgres.py:50, await session.commit() after the body returned
ExitCommit ==
    /\ tx.pc = "exit"
    /\ \/ /\ Commit(tx.op)
          /\ tx' = [tx EXCEPT !.pc = "finally", !.committed = TRUE, !.pending = FALSE]
       \/ /\ tx' = [tx EXCEPT !.pc = "except", !.commit_failed = TRUE]
          /\ UNCHANGED <<db_sessions, db_messages>>

\* postgres.py:51-53, except Exception: await session.rollback(); raise
RollbackAndRaise ==
    /\ tx.pc = "except"
    /\ tx' = [tx EXCEPT !.pc = "finally", !.pending = FALSE, !.rolled_back = TRUE,
                        !.raised = TRUE]
    /\ UNCHANGED <<db_sessions, db_messages>>

\* postgres.py:54-55, finally: await session.close()
Close ==
    /\ tx.pc = "finally"
    /\ tx' = [tx EXCEPT !.pc = "done", !.closed = TRUE]
    /\ UNCHANGED <<db_sessions, db_messages>>

InitTx ==
    /\ ParserIdle
    /\ max_memories = DefaultMaxMemories
    /\ InitMemoryStore
    /\ RouteIdle
    /\ ExtIdle

NextTx ==
    \/ \E op \in Operations :
          Begin(op) /\ UNCHANGED <<parserVars, memoryVars, req, running, exceptTx>>
    \/ BodyCall /\ UNCHANGED <<parserVars, memoryVars, req, running, exceptTx>>
    \/ ExitCommit /\ UNCHANGED <<parserVars, memoryVars, req, running, exceptTx>>
    \/ RollbackAndRaise /\ UNCHANGED <<parserVars, memoryVars, req, running, exceptTx>>
    \/ Close /\ UNCHANGED <<parserVars, memoryVars, req, running, exceptTx>>

SpecTx == InitTx /\ [][NextTx]_vars

(***************************************************************************)
(* The citation step on its own (helper/core.py:126-163) over lists of     *)
(* used chunk ids that span several files, and the single mode of the      *)
(* resolver (helper/prep_citation.py:286-384) that terminal_main.py wires  *)
(* in.  "c9" is an id the index does not hold.                             *)
(***************************************************************************)
MaxUsed == 3

UsedIdLists == SeqsUpTo(IndexedChunks \cup {"c9"}, MaxUsed)

\* core.py:127-163: gate, resolver, zip, metadata of the memory entry
process_citations(flag, used_chunk_ids, resolved) ==
    /\ cite.pc = "idle"
    /\ LET read == [citation_required |-> flag = "yes" /\ Len(used_chunk_ids) > 0]
           called == GatePasses(read)
           written == IF called /\ resolved THEN ListArtifacts(used_chunk_ids) ELSE <<>>
           citations ==
               IF called /\ resolved
               THEN ZipCitations(used_chunk_ids,
                                 create_section_html_from_listchunk(used_chunk_ids))
               ELSE <<>>
       IN  cite' = [pc |-> "done", mode |-> "list",
                    used_chunk_ids |-> used_chunk_ids,
                    citation_required |-> read.citation_required,
                    resolver_called |-> called,
                    resolver_raised |-> called /\ ~resolved,
                    written |-> written,
                    citations |-> citations,
                    citations_count |-> Len(citations)]

\* prep_citation.py:286-384 called with one (file_id, chunk_id) pair
render_single(file_id, target_chunk_id) ==
    /\ cite.pc = "idle"
    /\ LET found == SingleFound(file_id, target_chunk_id) IN
       cite' = [pc |-> "done", mode |-> "single",
                used_chunk_ids |-> <<target_chunk_id>>,
                citation_required |-> TRUE,
                resolver_called |-> TRUE,
                resolver_raised |-> ~found,
                written |-> IF found
                            THEN <<create_section_html_from_chunk(file_id, target_chunk_id)>>
                            ELSE <<>>,
                citations |-> <<>>,
                citations_count |-> 0]

MaxText == 4

TextChars == {"1", ".", " ", "n", "h"}

ChunkTexts == SeqsUpTo(TextChars, MaxText)

ChunkHeaders == {<<>>, <<"h">>, <<" ", "h", " ">>, <<" ">>}

\* prep_citation.py:113-122 called on one chunk, as at lines 198 and 301
heading_of(header, text) ==
    /\ cite.pc = "idle"
    /\ cite' = [pc |-> "done", mode |-> "heading",
                used_chunk_ids |-> <<>>,
                citation_required |-> FALSE,
                resolver_called |-> FALSE,
                resolver_raised |-> FALSE,
                written |-> <<>>,
                citations |-> <<>>,
                citations_count |-> 0,
                chunk |-> [header |-> header, text |-> text],
                heading |-> detect_heading([header |-> header, text |-> text])]

InitCite ==
    /\ ParserIdle
    /\ max_memories = DefaultMaxMemories
    /\ InitMemoryStore
    /\ RouteIdle
    /\ ExtIdle

\* the resolver is entered from the idle state only
NextCite ==
    \/ /\ cite.pc = "idle"
       /\ \E flag \in {"yes", "no"}, used_chunk_ids \in UsedIdLists, resolved \in BOOLEAN :
             /\ process_citations(flag, used_chunk_ids, resolved)
             /\ UNCHANGED <<parserVars, memoryVars, routeVars, exceptCite>>
    \/ /\ cite.pc = "idle"
       /\ \E file_id \in FileIds, target_chunk_id \in IndexedChunks :
             /\ render_single(file_id, target_chunk_id)
             /\ UNCHANGED <<parserVars, memoryVars, routeVars, exceptCite>>
    \/ /\ cite.pc = "idle"
       /\ \E header \in ChunkHeaders, text \in ChunkTexts :
             /\ heading_of(header, text)
             /\ UNCHANGED <<parserVars, memoryVars, routeVars, exceptCite>>

SpecCite == InitCite /\ [][NextCite]_vars

(***************************************************************************)
(* Properties                                                              *)
(***************************************************************************)
RequiredKeys == {"answer", "citation_required", "used_chunk_ids", "chunk_reasoning"}

\* the default the specification documents: an empty answer and no citations
SafeDefault ==
    [EmptyObj EXCEPT
       !["answer"] = Str(<<>>),
       !["citation_required"] = Str(<<"no">>),
       !["used_chunk_ids"] = List(<<>>),
       !["chunk_reasoning"] = Obj(EmptyObj)]

\* the default with the error message as the answer
ErrorDefault == [SafeDefault EXCEPT !["answer"] = Str(<<"Error parsing response.">>)]

\* C1: after n appends to a session (since it was last cleared) the session
\* holds exactly min(n, max_memories) entries, and they are the most recently
\* appended ones in their append order.
C1_MemoryKeepsNewest ==
    \A s \in SessionIds :
       LET n == Len(appended[s])
           kept == MemoriesOf(s)
       IN  /\ Len(kept) = Min(n, max_memories)
           /\ \A i \in 1..Len(kept) : kept[i] = appended[s][n - Len(kept) + i]

\* with the default cap, 21 appends: the 1st entry is gone, the 21st is there
C1_Witness ==
    /\ max_memories = 20
    /\ Len(appended["s1"]) = 21
    /\ Len(MemoriesOf("s1")) = 20
    /\ \A i \in 1..20 : MemoriesOf("s1")[i].id # 1
    /\ MemoriesOf("s1")[20].id = 21

\* the object json.loads returns for the text the regular expression selects
Loaded == json_loads(re_search(content))

WellFormedResponse(o) ==
    /\ o["answer"].kind = "str"
    /\ o["citation_required"] \in {Str(<<"yes">>), Str(<<"no">>)}
    /\ o["used_chunk_ids"].kind = "list"
    /\ o["chunk_reasoning"].kind = "obj"
    /\ \A k \in KeysOf(o["chunk_reasoning"].sub) :
          k = "c1" /\ o["chunk_reasoning"].sub[k].kind = "str"
    /\ {o["used_chunk_ids"].seq[i] : i \in 1..Len(o["used_chunk_ids"].seq)}
          = KeysOf(o["chunk_reasoning"].sub)
    /\ o["c1"].kind = "absent"

HoldsNoObject(prose) ==
    \A i \in 1..Len(prose), j \in 1..Len(prose) : ~json_loads(SubSeq(prose, i, j)).ok

\* C2: prose around one well-formed target object, whatever braces its
\* strings hold: the parser returns exactly that object, not the fallback.
C2_ParserReturnsTarget ==
    (/\ response.done
     /\ target.emitted
     /\ WellFormedResponse(target.obj)
     /\ HoldsNoObject(target.pre) /\ HoldsNoObject(target.post))
    => (~response.raised /\ response.value = target.obj)

UsedSetOf(o) ==
    IF o["used_chunk_ids"].kind = "absent" THEN {}
    ELSE IF o["used_chunk_ids"].kind = "obj" THEN KeysOf(o["used_chunk_ids"].sub)
    ELSE {o["used_chunk_ids"].seq[i] : i \in 1..Len(o["used_chunk_ids"].seq)}

ReasoningKeysOf(o) ==
    IF o["chunk_reasoning"].kind = "obj" THEN KeysOf(o["chunk_reasoning"].sub) ELSE {}

Mismatched(o) ==
    /\ o["used_chunk_ids"].kind \in {"absent", "list", "str", "obj"}
    /\ o["chunk_reasoning"].kind \in {"absent", "obj"}
    /\ UsedSetOf(o) # ReasoningKeysOf(o)

C5_ParserNeverRaises ==
    response.done =>
       /\ ~response.raised
       /\ \A k \in RequiredKeys : response.value[k].kind # "absent"
       /\ gate.done => ~gate.raised

C5_Witness ==
    /\ gate.done /\ ~gate.raised
    /\ Loaded.ok
    /\ Loaded.obj["used_chunk_ids"].kind = "num"
    /\ Loaded.obj["citation_required"] = Str(<<"yes">>)

MissingKeys(o) == {k \in RequiredKeys : o[k].kind = "absent"}

DefaultOf(k) == SafeDefault[k]

Completed(o) ==
    [k \in KeyNames |-> IF k \in MissingKeys(o) THEN DefaultOf(k) ELSE o[k]]

Answered(r) ==
    \/ req[r].pc \in {"cite", "remember", "save_user", "save_assistant", "done"}
    \/ req[r].pc = "failed" /\ req[r].error \in {"response", "resolver", "KeyError"}

\* process_query has returned its result record to the route
Returned(r) == req[r].result # NoResult

NoParseableJson(text) ==
    \A i \in 1..Len(text), j \in 1..Len(text) : ~json_loads(SubSeq(text, i, j)).ok

C7_CitationGate ==
    \A r \in Requests :
       /\ (req[r].resolver_called \/ req[r].citations # <<>>)
             => /\ req[r].llm_response["citation_required"] = Str(<<"yes">>)
                /\ UsedSetOf(req[r].llm_response) # {}
       /\ (/\ Answered(r) /\ req[r].pc # "cite"
           /\ req[r].llm_response["citation_required"] = Str(<<"no">>))
             => /\ ~req[r].resolver_called
                /\ req[r].citations = <<>>
                /\ req[r].error \notin {"response", "resolver"}
                /\ req[r].pc # "remember"
                      => /\ Returned(r)
                         /\ req[r].result.status = "success"
                         /\ req[r].result.citations = <<>>

C7_Witness ==
    \E r \in Requests :
       /\ req[r].llm_response["citation_required"] = Str(<<"no">>)
       /\ req[r].llm_response["used_chunk_ids"] = List(<<"c1">>)
       /\ req[r].chunks = <<"c1">>
       /\ Returned(r)
       /\ req[r].result.status = "success"
       /\ req[r].result.citations = <<>>

\* C8: when the resolver raises after the gate passed, process_query catches
\* it, returns status success with the full answer and no citations, and has
\* appended the turn to the memory of the session.
C8_ResolverFailureIsolated ==
    \A r \in Requests :
       req[r].resolver_raised
       => /\ req[r].error # "resolver"
          /\ req[r].citations = <<>>
          /\ req[r].pc # "remember"
                => /\ Returned(r)
                   /\ req[r].result.status = "success"
                   /\ req[r].result.answer = req[r].llm_response["answer"]
                   /\ req[r].result.citations = <<>>
                   /\ req[r].memory_id \in 1..Len(appended[req[r].session_id])
                   /\ LET entry == appended[req[r].session_id][req[r].memory_id] IN
                      /\ entry.user_message = req[r].query
                      /\ entry.ai_response = req[r].llm_response["answer"]
                      /\ entry.metadata.citations_count = 0

C8_Witness ==
    \E r \in Requests :
       /\ req[r].resolver_raised
       /\ Returned(r)
       /\ req[r].result.answer = Str(<<"t">>)
       /\ req[r].memory_id = 1
       /\ Len(MemoriesOf(req[r].session_id)) = 1

\* C9: when the embedding call, the vector search or the LLM call raises, the
\* exception leaves process_query: no result record, no memory entry, and the
\* route fails the request without persisting a message for it.
C9_FatalFailuresPropagate ==
    \A r \in Requests :
       req[r].error \in {"retrieval", "llm"}
       => /\ req[r].pc = "failed"
          /\ req[r].http = 500
          /\ req[r].result = NoResult
          /\ req[r].body = NoResult
          /\ req[r].memory_id = 0
          /\ MessagesOf(r) = <<>>

C9_Witness ==
    \E r \in Requests :
       /\ req[r].error = "llm"
       /\ req[r].pc = "failed"
       /\ req[r].chunks = <<"c1">>
       /\ MemoriesOf(req[r].session_id) = <<>>

RoleCount(r, role) == Len(SelectSeq(MessagesOf(r), LAMBDA m : m.role = role))

\* C10: a query request whose session lookup or creation, retrieval, LLM call
\* and persistence all succeed gets a success response carrying the answer,
\* and its session gains one user message and one assistant message.
C10_QuerySucceeds ==
    \A r \in Requests :
       (req[r].pc \in {"done", "failed"} /\ Returned(r))
       => /\ req[r].http = 200
          /\ req[r].body # NoResult
          /\ req[r].body.status = "success"
          /\ req[r].body.answer = req[r].result.answer
          /\ RoleCount(r, "user") = 1
          /\ RoleCount(r, "assistant") = 1

\* C11: on every endpoint that takes a session_id, a request that names a
\* session that does not exist is answered with 404, never with 500.
C11_UnknownSessionIs404 ==
    /\ (api.endpoint \in Endpoints /\ ~api.existed) => api.http = 404
    /\ \A r \in Requests : req[r].error = "session_not_found" => req[r].http = 404

\* the summary _update_summary builds from the last five of the stored entries
SummaryFrom(memories) ==
    LET recent == PySuffix(memories, 5) IN [i \in 1..Len(recent) |-> recent[i].user_message]

\* session s gets one more entry in this step
AppendsTo(s) == Len(appended'[s]) = Len(appended[s]) + 1

C18_SummaryEveryFifthAppend ==
    \A s \in SessionIds :
       recomputed[s] = {n \in 1..Len(appended[s]) : n % 5 = 0}

TitlesOf(blocks) == [i \in 1..Len(blocks) |-> blocks[i].title]

EntriesOf(block) == {block.entries[i] : i \in 1..Len(block.entries)}

\* C13: get_memory_context returns the empty string for a session that is
\* unknown or has no entries; otherwise its output is, in this order, the
\* summary block (iff the cached summary is non-empty), the relevant block
\* (iff a relevant entry was found) and the recent block with the last 3
\* entries as they are stored (iff fewer than 3 relevant entries were found).
C13_ContextBlocks ==
    ctx.asked =>
       LET memories == MemoriesOf(ctx.session_id)
           blocks == ctx.out.blocks
       IN  /\ ~ctx.out.raised
           /\ memories = <<>> => blocks = <<>>
           /\ memories # <<>> =>
                 /\ TitlesOf(blocks) =
                       (IF SummaryOf(ctx.session_id) # <<>>
                        THEN <<"CONVERSATION SUMMARY">> ELSE <<>>)
                       \o (IF Len(ctx.relevant) > 0
                           THEN <<"RELEVANT PREVIOUS DISCUSSION">> ELSE <<>>)
                       \o (IF Len(ctx.relevant) < 3
                           THEN <<"RECENT CONVERSATION">> ELSE <<>>)
                 /\ \A i \in 1..Len(blocks) :
                       /\ blocks[i].title = "CONVERSATION SUMMARY"
                             => blocks[i].summary = SummaryOf(ctx.session_id)
                       /\ blocks[i].title = "RELEVANT PREVIOUS DISCUSSION"
                             => blocks[i].entries = ctx.relevant
                       /\ blocks[i].title = "RECENT CONVERSATION"
                             => LET recent == blocks[i].entries
                                    n == Len(memories)
                                IN  /\ Len(recent) = Min(3, n)
                                    /\ \A j \in 1..Len(recent) :
                                          recent[j] = memories[n - Len(recent) + j]

\* all three blocks, with a relevant entry repeated in the recent block
C13_Witness ==
    /\ ctx.asked
    /\ Len(ctx.out.blocks) = 3
    /\ Len(ctx.relevant) = 2
    /\ EntriesOf(ctx.out.blocks[2]) \cap EntriesOf(ctx.out.blocks[3]) # {}
    /\ Len(MemoriesOf(ctx.session_id)) = 6

\* the number of words, letter case ignored, that an entry (its user message
\* and its answer) shares with a query
SharedWords(entry, query) ==
    Cardinality({Lower(query[i]) : i \in 1..Len(query)} \cap
                ({Lower(entry.user_message[i]) : i \in 1..Len(entry.user_message)} \cup
                 {Lower(entry.ai_response.seq[i]) : i \in 1..Len(entry.ai_response.seq)}))

\* C14: the relevant entries are at most `limit` entries of the session, none
\* shares no word with the query (case-insensitive); they are ordered by the
\* overlap count descending, ties in favour of the more recently appended;
\* and when at least `limit` entries overlap exactly `limit` are returned.
C14_RelevantOrdering ==
    ctx.asked =>
       LET memories == MemoriesOf(ctx.session_id)
           relevant == ctx.relevant
           overlapping == {i \in 1..Len(memories) : SharedWords(memories[i], ctx.query) > 0}
       IN  /\ Len(relevant) <= ctx.limit
           /\ \A i \in 1..Len(relevant) :
                 /\ \E k \in 1..Len(memories) : memories[k] = relevant[i]
                 /\ SharedWords(relevant[i], ctx.query) > 0
           /\ \A i, j \in 1..Len(relevant) :
                 i < j =>
                    \/ SharedWords(relevant[i], ctx.query) > SharedWords(relevant[j], ctx.query)
                    \/ /\ SharedWords(relevant[i], ctx.query) = SharedWords(relevant[j], ctx.query)
                       /\ relevant[i].id > relevant[j].id
           /\ Cardinality(overlapping) >= ctx.limit => Len(relevant) = ctx.limit

\* six overlapping entries and five returned: one that shares two words
\* first, older than the ones sharing one word that follow it
C14_Witness ==
    /\ ctx.asked
    /\ ctx.limit = 5
    /\ ctx.query = <<"w1", "w2">>
    /\ Len(MemoriesOf(ctx.session_id)) = 6
    /\ \A i \in 1..6 : SharedWords(MemoriesOf(ctx.session_id)[i], ctx.query) > 0
    /\ Len(ctx.relevant) = 5
    /\ SharedWords(ctx.relevant[1], ctx.query) = 2
    /\ SharedWords(ctx.relevant[2], ctx.query) = 1
    /\ SharedWords(ctx.relevant[3], ctx.query) = 1
    /\ ctx.relevant[1].id < ctx.relevant[3].id

\* this step is a clear_session_memory(s) call
Clears(s) == mem_call' # mem_call /\ mem_call'.op = "clear" /\ mem_call'.session_id = s

\* C15: clear_session_memory(s) removes the entries and the cached summary
\* of s (get_session_info then reports no memory, count 0 and no summary,
\* get_memory_context returns the empty string), leaves every other session
\* as it was, and changes nothing when s has no memory.
C15_ClearRemovesOneSession ==
    [][\A s \in SessionIds :
          Clears(s) =>
             /\ (get_session_info(s))' =
                   [session_id |-> s, has_memory |-> FALSE, memory_count |-> 0,
                    has_summary |-> FALSE]
             /\ \A query \in ContextQueries :
                   (get_memory_context(s, query, DefaultLimit))'
                      = [raised |-> FALSE, blocks |-> <<>>]
             /\ \A other \in SessionIds \ {s} :
                   /\ (get_session_info(other))' = get_session_info(other)
                   /\ (MemoriesOf(other))' = MemoriesOf(other)
                   /\ (SummaryOf(other))' = SummaryOf(other)
             /\ (s \notin DOMAIN _session_memories /\ s \notin DOMAIN _session_summaries)
                   => UNCHANGED <<_session_memories, _session_summaries>>]_vars

\* a session with entries and a summary was cleared while the other one has
\* entries and a summary of its own
C15_Witness ==
    /\ mem_call.op = "clear"
    /\ mem_call.before.has_memory /\ mem_call.before.has_summary
    /\ get_session_info(mem_call.session_id).memory_count = 0
    /\ \E other \in SessionIds \ {mem_call.session_id} :
          get_session_info(other).has_memory /\ get_session_info(other).has_summary

\* a session without memory was cleared: a second clear, or a first one
C15_WitnessAbsent ==
    /\ mem_call.op = "clear"
    /\ ~mem_call.before.has_memory
    /\ \E other \in SessionIds \ {mem_call.session_id} : get_session_info(other).has_memory

\* C16: every operation run inside get_async_session ends with the
\* connection released; its writes are committed exactly when its body
\* raised nothing (and the commit went through); when the body raised, the
\* transaction is rolled back, nothing of it is committed and the exception
\* reaches the caller.
C16_CommitIffBodySucceeds ==
    tx.pc = "done" =>
       /\ tx.closed
       /\ (~tx.body_raised /\ ~tx.commit_failed) => (tx.committed /\ ~tx.raised)
       /\ tx.body_raised => (tx.rolled_back /\ tx.raised /\ ~tx.committed)

\* the files that own at least one of the ids
OwningFiles(ids) ==
    {IndexRows[i].file_id : i \in {n \in 1..Len(IndexRows) : IndexRows[n].chunk_id \in RangeOf(ids)}}

ResolvedList ==
    /\ cite.pc = "done"
    /\ cite.mode = "list"
    /\ cite.resolver_called
    /\ ~cite.resolver_raised

\* C17: when the citation gate passes and the resolver succeeds, the result
\* holds as many citation records as there are distinct files owning one of
\* the used chunk ids, and citations_count of the memory entry is that number.
C17_OneCitationPerFile ==
    ResolvedList =>
        /\ Len(cite.citations) = Cardinality(OwningFiles(cite.used_chunk_ids))
        /\ cite.citations_count = Cardinality(OwningFiles(cite.used_chunk_ids))

\* three used ids, two of them of one file: two citation records
C17_Witness ==
    /\ ResolvedList
    /\ cite.used_chunk_ids = <<"c12", "c4", "c1">>
    /\ Len(cite.citations) = 2
    /\ cite.citations_count = 2

\* the ids a written file was asked to highlight
TargetsOf(artifact) ==
    IF cite.mode = "single" THEN RangeOf(cite.used_chunk_ids)
    ELSE {c \in RangeOf(cite.used_chunk_ids) :
             \E i \in 1..Len(IndexRows) :
                 IndexRows[i].chunk_id = c /\ IndexRows[i].file_id = artifact.file_id}

\* C20: in list mode and in single mode a chunk of the section is wrapped in
\* the highlight marker exactly when its chunk_id equals one of the target
\* ids; no other chunk of the section is highlighted.
C20_HighlightIffTarget ==
    cite.pc = "done" =>
        \A k \in 1..Len(cite.written) :
            \A i \in 1..Len(cite.written[k].body) :
                cite.written[k].body[i].highlighted
                    <=> cite.written[k].body[i].chunk_id \in TargetsOf(cite.written[k])

\* C19: for every input the text that _parse_json_response extracts for the
\* JSON parser is the block that brace counting from the first opening brace
\* selects, that is, what _extract_json_block returns for the same text.
C19_ExtractionIsBraceCounting ==
    response.done => re_search(content) = _extract_json_block(content)

\* the rows of one file among the used ids, as the resolver groups them
CitedOf(artifact) ==
    {c \in RangeOf(cite.used_chunk_ids) :
        \E i \in 1..Len(IndexRows) :
            IndexRows[i].chunk_id = c /\ IndexRows[i].file_id = artifact.file_id}

\* C21: in list mode the artifact written for a file group contains every
\* cited chunk of the group, each wrapped in the highlight marker, however the
\* heading was established and whatever headers the cited chunks carry.
C21_ArtifactHoldsEveryCitedChunk ==
    ResolvedList =>
        \A k \in 1..Len(cite.written) :
            \A c \in CitedOf(cite.written[k]) :
                \E i \in 1..Len(cite.written[k].body) :
                    /\ cite.written[k].body[i].chunk_id = c
                    /\ cite.written[k].body[i].highlighted

\* the lines of a text, in order
LineStarts(text) == {s \in 1..Len(text) : s = 1 \/ text[s - 1] = "n"}

LineAt(text, s) == SubSeq(text, s, RunEnd(text, s, {"1", ".", " ", "h"}))

\* the heading the chunk is said to get: its stripped header, else the title
\* of its first line that has the form number, whitespace, title, else the
\* placeholder
StatedHeading(chunk) ==
    IF chunk.header # <<>> THEN Strip(chunk.header)
    ELSE LET lines == {s \in LineStarts(chunk.text) :
                          HeadingMatchAt(LineAt(chunk.text, s), 1)} IN
         IF lines # {}
         THEN LET s == CHOOSE s1 \in lines : \A s2 \in lines : s1 <= s2 IN
              Strip(HeadingGroup(LineAt(chunk.text, s), 1))
         ELSE ReferencedSection

\* C24: the heading is the stripped header when the header is not empty,
\* otherwise the title of the first line of the text of the form number,
\* whitespace, title, otherwise "Referenced Section".
C24_HeadingAsStated ==
    cite.pc = "done" /\ cite.mode = "heading" => cite.heading = StatedHeading(cite.chunk)

\* the file that owns an indexed chunk id
OwnerOf(chunk_id) ==
    LET i == CHOOSE n \in 1..Len(IndexRows) : IndexRows[n].chunk_id = chunk_id IN
    IndexRows[i].file_id

\* C25: every citation record of a result pairs a used chunk id with the path
\* of the artifact that was written for the file owning that chunk.
C25_CitationPairsChunkWithItsFile ==
    ResolvedList =>
        \A i \in 1..Len(cite.citations) :
            /\ cite.citations[i].chunk_id \in IndexedChunks
            /\ \E k \in 1..Len(cite.written) :
                  /\ cite.written[k].file_id = OwnerOf(cite.citations[i].chunk_id)
                  /\ cite.written[k].path = cite.citations[i].citation_path

\* C26: within one list-mode call the artifacts of distinct files have
\* distinct paths, so none is overwritten by another and the returned list of
\* paths holds no duplicate.
C26_DistinctFilesDistinctPaths ==
    ResolvedList =>
        \A k, l \in 1..Len(cite.written) :
            k # l => cite.written[k].path # cite.written[l].path

\* C27: every chunk id in the citations of a request was retrieved for that
\* request; an id the LLM made up never produces a citation.
C27_CitedChunksWereRetrieved ==
    \A r \in Requests :
        \A i \in 1..Len(req[r].citations) :
            req[r].citations[i].chunk_id \in RangeOf(req[r].chunks)

\* request r has stored its turn in the memory of its session
Remembered(r) == req[r].memory_id # 0

\* C22: when queries of one session run as concurrent tasks, the turn of each
\* of them is in the memory of the session (no append is lost or overwritten by
\* another task) and the session never holds more than max_memories entries.
C22_ConcurrentTurnsAllKept ==
    /\ \A r \in Requests :
          Remembered(r) =>
              \E i \in 1..Len(MemoriesOf(req[r].session_id)) :
                  /\ MemoriesOf(req[r].session_id)[i].id = req[r].memory_id
                  /\ MemoriesOf(req[r].session_id)[i].user_message = req[r].query
    /\ \A r1, r2 \in Requests :
          (r1 # r2 /\ Remembered(r1) /\ Remembered(r2)
              /\ req[r1].session_id = req[r2].session_id)
          => req[r1].memory_id # req[r2].memory_id
    /\ \A s \in SessionIds : Len(MemoriesOf(s)) <= max_memories

\* two requests of one session in flight at once, both past their memory update
C22_Witness ==
    /\ req["r1"].session_id = req["r2"].session_id
    /\ req["r1"].pc = "save_user" /\ req["r2"].pc = "save_user"
    /\ Len(MemoriesOf(req["r1"].session_id)) = 2

\* C23: every persisted message belongs to a session that exists, under any
\* interleaving of delete requests with query requests in flight; after
\* delete_session(s) no message of s is stored.
C23_NoMessageWithoutSession ==
    \A i \in 1..Len(db_messages) : db_messages[i].session_id \in db_sessions

\* C28: after the clear-memory endpoint has returned for a session, the memory
\* of the orchestrator for that session is empty: get_memory_info reports
\* memory_count 0 and the next query of the session finds no memory context.
C28_ClearEndpointEmptiesMemory ==
    [][\A s \in SessionIds :
          (api' # api /\ api'.endpoint = "clear_memory" /\ api'.session_id = s)
          => /\ (get_session_info(s))'.memory_count = 0
             /\ \A q \in Queries : (get_memory_context(s, q, DefaultLimit))'.blocks = <<>>]_vars

\* C29: whatever the LLM returned for earlier queries of a session, the memory
\* context step of every later query of the session does not raise: every
\* stored entry has a string as its ai_response.
C29_MemoryContextNeverRaises ==
    /\ \A r \in Requests : req[r].error # "memory_context"
    /\ \A s \in SessionIds :
          \A i \in 1..Len(MemoriesOf(s)) : MemoriesOf(s)[i].ai_response.kind = "str"

Finished(r) == req[r].pc \in {"idle", "done", "failed"}

StoredFor(s, role) ==
    Len(SelectSeq(db_messages, LAMBDA m : m.session_id = s /\ m.role = role))

\* C30: the user message of every completed query request is immediately
\* followed in the stored messages by the assistant message of the same
\* request, and once all requests have finished a session holds as many user
\* messages as assistant messages.
C30_UserThenAssistant ==
    /\ \A r \in Requests :
          req[r].pc = "done" =>
              \E i \in 1..(Len(db_messages) - 1) :
                  /\ db_messages[i].request = r /\ db_messages[i].role = "user"
                  /\ db_messages[i + 1].request = r /\ db_messages[i + 1].role = "assistant"
    /\ (\A r \in Requests : Finished(r)) =>
          \A s \in SessionIds : StoredFor(s, "user") = StoredFor(s, "assistant")
====
